---- MODULE Spec2Model ----
(***************************************************************************)
(* A model of indic_transliteration/xsanscript.py: Scheme, SchemeMap, the  *)
(* Roman-source and Brahmic-source transducers and transliterate().        *)
(*                                                                         *)
(* A string is a sequence of characters; a character is a one-element name *)
(* ("k", "#") or, outside ASCII, its code point ("U+0915").  A grapheme is *)
(* a string.  A dict is a function whose DOMAIN is its key set.            *)
(***************************************************************************)
EXTENDS Integers, Sequences, FiniteSets, TLC

\* ------------------------------------------------------------------ bounds
MaxLen == 3
MaxParts == 3

\* ------------------------------------------------------- strings and dicts
Min(a, b) == IF a < b THEN a ELSE b

Max(a, b) == IF a > b THEN a ELSE b

Str(n, alphabet) == UNION {[1..k -> alphabet] : k \in 0..n}

Front(s) == SubSeq(s, 1, Len(s) - 1)

\* data[i:j] of Python, i and j counted from 0, j clipped to the length
Slice(s, i, j) == SubSeq(s, i + 1, Min(j, Len(s)))

EmptyDict == [k \in {} |-> <<>>]

\* d[k] = v
Put(d, k, v) == [x \in (DOMAIN d) \cup {k} |-> IF x = k THEN v ELSE d[x]]

\* d.update(e)
Update(d, e) == [x \in (DOMAIN d) \cup (DOMAIN e) |-> IF x \in DOMAIN e THEN e[x] ELSE d[x]]

\* s occurs in t as a contiguous run
Occurs(s, t) == \E p \in 0..(Len(t) - Len(s)) : Slice(t, p, p + Len(s)) = s

\* an outcome of a call: a returned value, or the exception that ended it
Return(v) == [raised |-> "", value |-> v]

Raise(e) == [raised |-> e, value |-> <<>>]

\* ------------------------------------------------------------------ Scheme
\* Scheme(data, synonym_map, is_roman): data is the dict of groups in its
\* insertion order, a sequence of <<group name, graphemes>>.
Scheme(data, synonym_map, is_roman) ==
  [groups |-> data, synonym_map |-> synonym_map, is_roman |-> is_roman]

GroupNames(scheme) == {scheme.groups[n][1] : n \in DOMAIN scheme.groups}

\* scheme[group]
Group(scheme, group) ==
  LET n == CHOOSE m \in DOMAIN scheme.groups : scheme.groups[m][1] = group
  IN scheme.groups[n][2]

\* a fragment of the HK table: three vowels, their marks, four consonants
HK_part ==
  Scheme(<< <<"vowels", << <<"a">>, <<"R">>, <<"l", "R">> >> >>,
            <<"marks", << <<"R">>, <<"l", "R">> >> >>,
            <<"virama", << <<>> >> >>,
            <<"consonants", << <<"k">>, <<"k", "h">>, <<"h">>, <<"l">> >> >> >>,
         EmptyDict, TRUE)

\* a fragment of the ITRANS table, with its synonym "aa" of "A"
ITRANS_part ==
  Scheme(<< <<"vowels", << <<"a">>, <<"A">> >> >>,
            <<"marks", << <<"A">> >> >>,
            <<"virama", << <<>> >> >>,
            <<"consonants", << <<"k">>, <<"k", "h">>, <<"h">>, <<"l">> >> >> >>,
         (<<"A">> :> << <<"a", "a">> >>), TRUE)

\* a fragment of the SLP1 table: the same letters, one character each
SLP1_part ==
  Scheme(<< <<"vowels", << <<"a">>, <<"f">>, <<"x">> >> >>,
            <<"marks", << <<"f">>, <<"x">> >> >>,
            <<"virama", << <<>> >> >>,
            <<"consonants", << <<"k">>, <<"K">>, <<"h">>, <<"l">> >> >> >>,
         EmptyDict, TRUE)

\* the Devanagari letters that pair with HK_part, one code point each:
\* a vocalic-r vocalic-l; signs vocalic-r, vocalic-l; virama; ka kha ha la
DEVANAGARI_part ==
  Scheme(<< <<"vowels", << <<"U+0905">>, <<"U+090B">>, <<"U+090C">> >> >>,
            <<"marks", << <<"U+0943">>, <<"U+0962">> >> >>,
            <<"virama", << <<"U+094D">> >> >>,
            <<"consonants", << <<"U+0915">>, <<"U+0916">>, <<"U+0939">>, <<"U+0932">> >> >> >>,
         EmptyDict, FALSE)

\* Scheme(): no data at all
EMPTY == Scheme(<< >>, EmptyDict, TRUE)

\* Scheme({'vowels': []}): groups, but no grapheme
HOLLOW == Scheme(<< <<"vowels", << >> >> >>, EmptyDict, TRUE)

\* a Brahmic scheme that has consonants and no virama group
NO_VIRAMA ==
  Scheme(<< <<"vowels", << <<"U+0905">>, <<"U+090B">>, <<"U+090C">> >> >>,
            <<"marks", << <<"U+0943">>, <<"U+0962">> >> >>,
            <<"consonants", << <<"U+0915">>, <<"U+0916">>, <<"U+0939">>, <<"U+0932">> >> >> >>,
         EmptyDict, FALSE)

\* a Brahmic scheme whose groups are shorter than those of HK_part
SHORT ==
  Scheme(<< <<"vowels", << <<"U+0905">>, <<"U+090B">> >> >>,
            <<"marks", << <<"U+0943">> >> >>,
            <<"virama", << <<"U+094D">> >> >>,
            <<"consonants", << <<"U+0915">>, <<"U+0916">> >> >> >>,
         EmptyDict, FALSE)

\* a Roman scheme whose graphemes have one character and whose synonym "aa" has two
LONG_SYNONYM ==
  Scheme(<< <<"vowels", << <<"a">>, <<"A">> >> >>,
            <<"marks", << <<"A">> >> >>,
            <<"virama", << <<>> >> >>,
            <<"consonants", << <<"k">> >> >> >>,
         (<<"A">> :> << <<"a", "a">> >>), TRUE)

\* a scheme that shares no group name with the others
SYMBOLS_ONLY == Scheme(<< <<"symbols", << <<"0">>, <<"1">> >> >> >>, EmptyDict, TRUE)

\* SCHEMES[HK], as _setup builds it
HK ==
  Scheme(<<
    <<"vowels", <<
       <<"a">>, <<"A">>, <<"i">>, <<"I">>, <<"u">>, <<"U">>, <<"R">>, <<"R", "R">>,
       <<"l", "R">>, <<"l", "R", "R">>, <<"e">>, <<"E">>, <<"a", "i">>, <<"o">>, <<"O">>,
       <<"a", "u">> >> >>,
    <<"marks", <<
       <<"A">>, <<"i">>, <<"I">>, <<"u">>, <<"U">>, <<"R">>, <<"R", "R">>, <<"l", "R">>,
       <<"l", "R", "R">>, <<"e">>, <<"E">>, <<"a", "i">>, <<"o">>, <<"O">>, <<"a", "u">> >> >>,
    <<"virama", <<
       <<>> >> >>,
    <<"other", <<
       <<"M">>, <<"H">>, <<"~">> >> >>,
    <<"consonants", <<
       <<"k">>, <<"k", "h">>, <<"g">>, <<"g", "h">>, <<"G">>, <<"c">>, <<"c", "h">>, <<"j">>,
       <<"j", "h">>, <<"J">>, <<"T">>, <<"T", "h">>, <<"D">>, <<"D", "h">>, <<"N">>, <<"t">>,
       <<"t", "h">>, <<"d">>, <<"d", "h">>, <<"n">>, <<"p">>, <<"p", "h">>, <<"b">>,
       <<"b", "h">>, <<"m">>, <<"y">>, <<"r">>, <<"l">>, <<"v">>, <<"z">>, <<"S">>, <<"s">>,
       <<"h">>, <<"L">>, <<"k", "S">>, <<"j", "J">>, <<"n", "2">>, <<"r", "2">>, <<"z", "h">> >> >>,
    <<"symbols", <<
       <<"O", "M">>, <<"'">>, <<"|">>, <<"|", "|">>, <<"0">>, <<"1">>, <<"2">>, <<"3">>,
       <<"4">>, <<"5">>, <<"6">>, <<"7">>, <<"8">>, <<"9">> >> >> >>,
    (<<"|">> :> <<<<".">>>>) @@ (<<"|", "|">> :> <<<<".", ".">>>>), TRUE)

\* SCHEMES[DEVANAGARI], as _setup builds it from the text of the file: every letter
\* is stored there as the two or three characters its UTF-8 bytes spell in cp1252
DEVANAGARI ==
  Scheme(<<
    <<"vowels", <<
       <<"U+00E0", "U+00A4", "U+2026">>, <<"U+00E0", "U+00A4", "U+2020">>,
       <<"U+00E0", "U+00A4", "U+2021">>, <<"U+00E0", "U+00A4", "U+02C6">>,
       <<"U+00E0", "U+00A4", "U+2030">>, <<"U+00E0", "U+00A4", "U+0160">>,
       <<"U+00E0", "U+00A4", "U+2039">>, <<"U+00E0", "U+00A5">>,
       <<"U+00E0", "U+00A4", "U+0152">>, <<"U+00E0", "U+00A5", "U+00A1">>,
       <<"U+00E0", "U+00A4", "U+017D">>, <<"U+00E0", "U+00A4">>, <<"U+00E0", "U+00A4">>,
       <<"U+00E0", "U+00A4", "U+2019">>, <<"U+00E0", "U+00A4", "U+201C">>,
       <<"U+00E0", "U+00A4", "U+201D">> >> >>,
    <<"marks", <<
       <<"U+00E0", "U+00A4", "U+00BE">>, <<"U+00E0", "U+00A4", "U+00BF">>,
       <<"U+00E0", "U+00A5", "U+20AC">>, <<"U+00E0", "U+00A5">>,
       <<"U+00E0", "U+00A5", "U+201A">>, <<"U+00E0", "U+00A5", "U+0192">>,
       <<"U+00E0", "U+00A5", "U+201E">>, <<"U+00E0", "U+00A5", "U+00A2">>,
       <<"U+00E0", "U+00A5", "U+00A3">>, <<"U+00E0", "U+00A5", "U+2020">>,
       <<"U+00E0", "U+00A5", "U+2021">>, <<"U+00E0", "U+00A5", "U+02C6">>,
       <<"U+00E0", "U+00A5", "U+0160">>, <<"U+00E0", "U+00A5", "U+2039">>,
       <<"U+00E0", "U+00A5", "U+0152">> >> >>,
    <<"virama", <<
       <<"U+00E0", "U+00A5">> >> >>,
    <<"other", <<
       <<"U+00E0", "U+00A4", "U+201A">>, <<"U+00E0", "U+00A4", "U+0192">>,
       <<"U+00E0", "U+00A4">> >> >>,
    <<"consonants", <<
       <<"U+00E0", "U+00A4", "U+2022">>, <<"U+00E0", "U+00A4", "U+2013">>,
       <<"U+00E0", "U+00A4", "U+2014">>, <<"U+00E0", "U+00A4", "U+02DC">>,
       <<"U+00E0", "U+00A4", "U+2122">>, <<"U+00E0", "U+00A4", "U+0161">>,
       <<"U+00E0", "U+00A4", "U+203A">>, <<"U+00E0", "U+00A4", "U+0153">>,
       <<"U+00E0", "U+00A4">>, <<"U+00E0", "U+00A4", "U+017E">>,
       <<"U+00E0", "U+00A4", "U+0178">>, <<"U+00E0", "U+00A4">>,
       <<"U+00E0", "U+00A4", "U+00A1">>, <<"U+00E0", "U+00A4", "U+00A2">>,
       <<"U+00E0", "U+00A4", "U+00A3">>, <<"U+00E0", "U+00A4", "U+00A4">>,
       <<"U+00E0", "U+00A4", "U+00A5">>, <<"U+00E0", "U+00A4", "U+00A6">>,
       <<"U+00E0", "U+00A4", "U+00A7">>, <<"U+00E0", "U+00A4", "U+00A8">>,
       <<"U+00E0", "U+00A4", "U+00AA">>, <<"U+00E0", "U+00A4", "U+00AB">>,
       <<"U+00E0", "U+00A4", "U+00AC">>, <<"U+00E0", "U+00A4", "U+00AD">>,
       <<"U+00E0", "U+00A4", "U+00AE">>, <<"U+00E0", "U+00A4", "U+00AF">>,
       <<"U+00E0", "U+00A4", "U+00B0">>, <<"U+00E0", "U+00A4", "U+00B2">>,
       <<"U+00E0", "U+00A4", "U+00B5">>, <<"U+00E0", "U+00A4", "U+00B6">>,
       <<"U+00E0", "U+00A4", "U+00B7">>, <<"U+00E0", "U+00A4", "U+00B8">>,
       <<"U+00E0", "U+00A4", "U+00B9">>, <<"U+00E0", "U+00A4", "U+00B3">>,
       <<"U+00E0", "U+00A4", "U+2022", "U+00E0", "U+00A5", "U+00E0", "U+00A4", "U+00B7">>,
       <<"U+00E0", "U+00A4", "U+0153", "U+00E0", "U+00A5", "U+00E0", "U+00A4", "U+017E">>,
       <<"U+00E0", "U+00A4", "U+00A9">>, <<"U+00E0", "U+00A4", "U+00B1">>,
       <<"U+00E0", "U+00A4", "U+00B4">> >> >>,
    <<"symbols", <<
       <<"U+00E0", "U+00A5">>, <<"U+00E0", "U+00A4", "U+00BD">>,
       <<"U+00E0", "U+00A5", "U+00A4">>, <<"U+00E0", "U+00A5", "U+00A5">>,
       <<"U+00E0", "U+00A5", "U+00A6">>, <<"U+00E0", "U+00A5", "U+00A7">>,
       <<"U+00E0", "U+00A5", "U+00A8">>, <<"U+00E0", "U+00A5", "U+00A9">>,
       <<"U+00E0", "U+00A5", "U+00AA">>, <<"U+00E0", "U+00A5", "U+00AB">>,
       <<"U+00E0", "U+00A5", "U+00AC">>, <<"U+00E0", "U+00A5", "U+00AD">>,
       <<"U+00E0", "U+00A5", "U+00AE">>, <<"U+00E0", "U+00A5", "U+00AF">> >> >> >>,
    EmptyDict, FALSE)

\* the registry: scheme name -> Scheme
SCHEMES ==
  [name \in {"hk", "devanagari", "hk_part", "itrans_part", "slp1_part", "devanagari_part",
             "empty", "hollow", "no_virama", "short", "symbols_only", "long_synonym"} |->
     CASE name = "hk" -> HK
       [] name = "devanagari" -> DEVANAGARI
       [] name = "slp1_part" -> SLP1_part
       [] name = "hk_part" -> HK_part
       [] name = "itrans_part" -> ITRANS_part
       [] name = "devanagari_part" -> DEVANAGARI_part
       [] name = "empty" -> EMPTY
       [] name = "hollow" -> HOLLOW
       [] name = "no_virama" -> NO_VIRAMA
       [] name = "short" -> SHORT
       [] name = "symbols_only" -> SYMBOLS_ONLY
       [] name = "long_synonym" -> LONG_SYNONYM]

\* --------------------------------------------------------------- SchemeMap
\* every grapheme of every group of the scheme
Graphemes(scheme) ==
  UNION {{scheme.groups[n][2][m] : m \in DOMAIN scheme.groups[n][2]} : n \in DOMAIN scheme.groups}

MaxOf(S) == CHOOSE m \in S : \A n \in S : n <= m

\* max(len(x) for g in from_scheme for x in from_scheme[g])
Longest(from_scheme) == MaxOf({Len(x) : x \in Graphemes(from_scheme)})

\* the keys the n-th pair (k, v) of the zip writes: k, and every k_syn of
\* from_scheme.synonym_map[k]
Written(ks, synonym_map, n) ==
  {ks[n]} \cup (IF ks[n] \in DOMAIN synonym_map
                THEN {synonym_map[ks[n]][m] : m \in DOMAIN synonym_map[ks[n]]}
                ELSE {})

\* sub_map after the loop over zip(from_scheme[group], to_scheme[group]): a
\* key holds the v of the last pair that wrote it
SubMap(ks, vs, synonym_map) ==
  LET pairs == 1..Min(Len(ks), Len(vs))
  IN [x \in UNION {Written(ks, synonym_map, n) : n \in pairs} |->
        vs[MaxOf({n \in pairs : x \in Written(ks, synonym_map, n)})]]

\* group.endswith('marks'), on the group names in use
EndsWithMarks(group) == group \in {"marks"}

EndsWithConsonants(group) == group \in {"consonants"}

EndsWithVowels(group) == group \in {"vowels"}

\* the loop over the groups of from_scheme, from group n on
RECURSIVE MapGroups(_, _, _, _)
MapGroups(from_scheme, to_scheme, n, self) ==
  IF n > Len(from_scheme.groups) THEN self
  ELSE LET group == from_scheme.groups[n][1]
       IN IF group \notin GroupNames(to_scheme)
          THEN MapGroups(from_scheme, to_scheme, n + 1, self)
          ELSE LET sub_map == SubMap(from_scheme.groups[n][2], Group(to_scheme, group),
                                     from_scheme.synonym_map)
                   next ==
                     IF EndsWithMarks(group)
                     THEN [self EXCEPT !.marks = Update(@, sub_map)]
                     ELSE IF group = "virama"
                     THEN [self EXCEPT !.virama = sub_map]
                     ELSE IF EndsWithConsonants(group)
                     THEN [self EXCEPT !.other = Update(@, sub_map),
                                       !.consonants = Update(@, sub_map)]
                     ELSE IF EndsWithVowels(group)
                     THEN [self EXCEPT !.other = Update(@, sub_map),
                                       !.vowels = Update(@, sub_map)]
                     ELSE [self EXCEPT !.other = Update(@, sub_map)]
               IN MapGroups(from_scheme, to_scheme, n + 1, next)

\* SchemeMap(from_scheme, to_scheme): the object, or the exception raised by
\* max() of an empty sequence
SchemeMap(from_scheme, to_scheme) ==
  IF Graphemes(from_scheme) = {}
  THEN Raise("ValueError")
  ELSE Return(MapGroups(from_scheme, to_scheme, 1,
                        [marks |-> EmptyDict, virama |-> EmptyDict, vowels |-> EmptyDict,
                         consonants |-> EmptyDict, other |-> EmptyDict,
                         from_roman |-> from_scheme.is_roman,
                         to_roman |-> to_scheme.is_roman,
                         longest |-> Longest(from_scheme)]))

\* ------------------------------------------------------------------ _roman
\* kw.pop(key, set())
Pop(kw, key) == IF key \in DOMAIN kw THEN kw[key] ELSE {}

\* the keys left in kw after the three pops
Unexpected(kw) == (DOMAIN kw) \ {"togglers", "suspend_on", "suspend_off"}

\* the locals of _roman at the top of its outer loop
RomanStart ==
  [i |-> 0, buf |-> <<>>, had_consonant |-> FALSE, found |-> FALSE,
   toggled |-> FALSE, suspended |-> FALSE, raised |-> ""]

\* Toggle with "i += 1": the second character of the toggler is read again
Toggle_one_character(s) == [s EXCEPT !.toggled = ~@, !.i = @ + 1, !.found = TRUE]

\* "if token in togglers:" taken: flip, skip two characters, fill the token again
Toggle(s) == [s EXCEPT !.toggled = ~@, !.i = @ + 2, !.found = TRUE]

\* "if token in suspend_on: ... elif token in suspend_off: ..."
Suspend(token, kw, s) ==
  [s EXCEPT !.suspended = IF token \in Pop(kw, "suspend_on") THEN TRUE
                          ELSE IF token \in Pop(kw, "suspend_off") THEN FALSE
                          ELSE @]

\* VowelMark without "elif to_roman: append(vowels[token])"
VowelMark_brahmic_only(token, scheme_map, s) ==
  LET mark == IF token \in DOMAIN scheme_map.marks THEN scheme_map.marks[token] ELSE <<>>
  IN [s EXCEPT !.buf = IF mark # <<>> THEN @ \o mark ELSE @,
               !.found = TRUE]

\* the pattern CV: the vowel after a consonant is its mark; "a" has none
VowelMark(token, scheme_map, s) ==
  LET mark == IF token \in DOMAIN scheme_map.marks THEN scheme_map.marks[token] ELSE <<>>
  IN [s EXCEPT !.buf = IF mark # <<>> THEN @ \o mark
                       ELSE IF scheme_map.to_roman THEN @ \o scheme_map.vowels[token]
                       ELSE @,
               !.found = TRUE]

\* Ordinary without "if had_consonant: append(virama[''])"
Ordinary_no_virama(token, scheme_map, s) ==
  [s EXCEPT !.buf = @ \o scheme_map.other[token], !.found = TRUE]

\* any other grapheme: end a lingering consonant with virama[''], then map it
Ordinary(token, scheme_map, s) ==
  IF s.had_consonant /\ <<>> \notin DOMAIN scheme_map.virama
  THEN [s EXCEPT !.raised = "KeyError"]
  ELSE [s EXCEPT !.buf = (IF s.had_consonant THEN @ \o scheme_map.virama[<<>>] ELSE @)
                          \o scheme_map.other[token],
                 !.found = TRUE]

\* Consume with "had_consonant = token in vowels"
Consume_vowels(token, scheme_map, s) ==
  IF s.found
  THEN [s EXCEPT !.had_consonant = token \in DOMAIN scheme_map.vowels,
                 !.i = @ + Len(token)]
  ELSE s

\* "if found:": remember a consonant and step over the token
Consume(token, scheme_map, s) ==
  IF s.found
  THEN [s EXCEPT !.had_consonant = token \in DOMAIN scheme_map.consonants,
                 !.i = @ + Len(token)]
  ELSE s

\* the inner loop "while token:", entered with the locals s
RECURSIVE Shrink(_, _, _, _)
Shrink(token, scheme_map, kw, s) ==
  IF token = <<>> THEN s
  ELSE IF token \in Pop(kw, "togglers") THEN Toggle(s)
  ELSE LET s1 == Suspend(token, kw, s)
       IN IF s1.toggled \/ s1.suspended
          THEN Shrink(Front(token), scheme_map, kw, s1)
          ELSE IF s1.had_consonant /\ token \in DOMAIN scheme_map.vowels
          THEN Consume(token, scheme_map, VowelMark(token, scheme_map, s1))
          ELSE IF token \in DOMAIN scheme_map.other
          THEN Consume(token, scheme_map, Ordinary(token, scheme_map, s1))
          ELSE Shrink(Front(token), scheme_map, kw, s1)

\* "if not found:" and "found = False", after the inner loop
Unmatched(data, scheme_map, s) ==
  IF s.raised # "" THEN s
  ELSE IF s.found THEN [s EXCEPT !.found = FALSE]
  ELSE IF s.had_consonant /\ <<>> \notin DOMAIN scheme_map.virama
  THEN [s EXCEPT !.raised = "KeyError"]
  ELSE LET flushed == IF s.had_consonant THEN s.buf \o scheme_map.virama[<<>>] ELSE s.buf
       IN IF s.i < Len(data)
          THEN [s EXCEPT !.buf = Append(flushed, data[s.i + 1]), !.had_consonant = FALSE,
                         !.i = @ + 1]
          ELSE [s EXCEPT !.buf = flushed, !.i = @ + 1]

\* one pass of the outer loop "while i <= len_data:"
RomanIter(data, scheme_map, kw, s) ==
  Unmatched(data, scheme_map,
            Shrink(Slice(data, s.i, s.i + scheme_map.longest), scheme_map, kw, s))

\* the outer loop, run from the locals s to its end
RECURSIVE RomanLoop(_, _, _, _)
RomanLoop(data, scheme_map, kw, s) ==
  IF s.raised # "" \/ s.i > Len(data) THEN s
  ELSE RomanLoop(data, scheme_map, kw, RomanIter(data, scheme_map, kw, s))

\* _roman(data, scheme_map, **kw)
_roman(data, scheme_map, kw) ==
  IF Unexpected(kw) # {} THEN Raise("TypeError")
  ELSE LET s == RomanLoop(data, scheme_map, kw, RomanStart)
       IN IF s.raised # "" THEN Raise(s.raised) ELSE Return(s.buf)

\* ---------------------------------------------------------------- _brahmic
\* the locals of _brahmic before its loop; n characters have been read
BrahmicStart == [n |-> 0, buf |-> <<>>, had_consonant |-> FALSE]

\* BrahmicIter with "had_consonant = L in consonants", whatever the target
BrahmicIter_any_target(data, scheme_map, s) ==
  LET L == <<data[s.n + 1]>>
      buf == IF L \in DOMAIN scheme_map.marks THEN s.buf \o scheme_map.marks[L]
             ELSE IF L \in DOMAIN scheme_map.virama THEN s.buf \o scheme_map.virama[L]
             ELSE (IF s.had_consonant THEN Append(s.buf, "a") ELSE s.buf)
                  \o (IF L \in DOMAIN scheme_map.other THEN scheme_map.other[L] ELSE L)
  IN [n |-> s.n + 1, buf |-> buf, had_consonant |-> L \in DOMAIN scheme_map.consonants]

\* one pass of "for L in data:"
BrahmicIter(data, scheme_map, s) ==
  LET L == <<data[s.n + 1]>>
      buf == IF L \in DOMAIN scheme_map.marks THEN s.buf \o scheme_map.marks[L]
             ELSE IF L \in DOMAIN scheme_map.virama THEN s.buf \o scheme_map.virama[L]
             ELSE (IF s.had_consonant THEN Append(s.buf, "a") ELSE s.buf)
                  \o (IF L \in DOMAIN scheme_map.other THEN scheme_map.other[L] ELSE L)
  IN [n |-> s.n + 1, buf |-> buf,
      had_consonant |-> scheme_map.to_roman /\ L \in DOMAIN scheme_map.consonants]

RECURSIVE BrahmicLoop(_, _, _)
BrahmicLoop(data, scheme_map, s) ==
  IF s.n >= Len(data) THEN s
  ELSE BrahmicLoop(data, scheme_map, BrahmicIter(data, scheme_map, s))

\* BrahmicEnd without "if had_consonant: append('a')"
BrahmicEnd_no_final_vowel(s) == s.buf

\* the lines after the loop: the final inherent vowel and the join
BrahmicEnd(s) == IF s.had_consonant THEN Append(s.buf, "a") ELSE s.buf

\* _brahmic(data, scheme_map, **kw): kw is accepted and never read
_brahmic(data, scheme_map, kw) == Return(BrahmicEnd(BrahmicLoop(data, scheme_map, BrahmicStart)))

\* ----------------------------------------------------------- transliterate
DefaultOptions ==
  [togglers |-> {<<"#", "#">>}, suspend_on |-> {<<"<">>}, suspend_off |-> {<<">">>}]

\* options = {...}; options.update(kw)
Options(kw) == Update(DefaultOptions, kw)

\* transliterate(data, _from, _to, **kw)
transliterate(data, from, to, kw) ==
  LET built == SchemeMap(SCHEMES[from], SCHEMES[to])
  IN IF built.raised # "" THEN Raise(built.raised)
     ELSE IF built.value.from_roman THEN _roman(data, built.value, Options(kw))
     ELSE _brahmic(data, built.value, Options(kw))

\* ------------------------------------------------------- the calls checked
MaxDegenerate == 2

\* the characters of the texts, for each source scheme
Chars(name) ==
  CASE name = "hk_part" -> {"a", "R", "l", "k", "h", "#", "<"}
    [] name = "itrans_part" -> {"a", "A", "k", "#"}
    [] name = "slp1_part" -> {"a", "f", "k", "K", "#"}
    [] name = "long_synonym" -> {"a", "A", "k"}
    [] name = "devanagari_part" -> {"U+0915", "U+0932", "U+0905", "U+0943", "U+094D", "x"}

SpanChars == {"k", "a", "#", "<"}

NoKw == EmptyDict

\* a keyword argument transliterate does not know
BogusKw == [bogus |-> {}]

Call(data, from_name, to_name, kwargs) ==
  [data |-> data, from |-> from_name, to |-> to_name, kw |-> kwargs]

\* every short text, between the schemes that pair up
RomanCalls ==
  UNION {{Call(d, p[1], p[2], NoKw) : d \in Str(MaxLen, Chars(p[1]))} :
           p \in {<<"hk_part", "devanagari_part">>, <<"hk_part", "hk_part">>,
                  <<"slp1_part", "devanagari_part">>, <<"itrans_part", "itrans_part">>}}

BrahmicCalls ==
  UNION {{Call(d, p[1], p[2], NoKw) : d \in Str(MaxLen, Chars(p[1]))} :
           p \in {<<"devanagari_part", "hk_part">>, <<"devanagari_part", "devanagari_part">>}}

\* the texts u, v, w around which a span is put
Parts ==
  UNION {[1..n[1] -> SpanChars] \X [1..n[2] -> SpanChars] \X [1..n[3] -> SpanChars] :
           n \in {m \in (0..MaxParts) \X (0..MaxParts) \X (0..MaxParts) :
                    m[1] + m[2] + m[3] <= MaxParts}}

\* texts with a span between two "##" or between "<" and ">"
SpanCalls ==
  {Call(t[1] \o c[2] \o t[2] \o c[3] \o t[3], c[1], "devanagari_part", NoKw) :
     t \in Parts,
     c \in {<<"hk_part", <<"#", "#">>, <<"#", "#">> >>,
            <<"slp1_part", <<"#", "#">>, <<"#", "#">> >>,
            <<"hk_part", <<"<">>, <<">">> >>}}

\* texts with a letter of the other script, and the pairs of schemes that do not pair up
DegenerateCalls ==
  {Call(d, p[1], p[2], NoKw) :
     d \in Str(MaxDegenerate, {"k", "a", "U+0915", "x"}),
     p \in {<<"hk_part", "devanagari_part">>,
            <<"empty", "devanagari_part">>, <<"hollow", "devanagari_part">>,
            <<"hk_part", "no_virama">>, <<"no_virama", "hk_part">>,
            <<"hk_part", "short">>, <<"hk_part", "symbols_only">>,
            <<"symbols_only", "hk_part">>, <<"hk_part", "empty">>}}

\* togglers={'#'}: a toggler of one character
OneCharacterToggler == [togglers |-> {<<"#">>}]

\* texts with the one-character toggler
TogglerCalls ==
  {Call(d, "hk_part", "devanagari_part", OneCharacterToggler) : d \in Str(MaxLen, {"k", "a", "#"})}

\* calls with an option nobody reads
OptionCalls ==
  {Call(d, p[1], p[2], BogusKw) :
     d \in Str(1, {"k", "U+0915"}),
     p \in {<<"hk_part", "devanagari_part">>, <<"devanagari_part", "hk_part">>,
            <<"hk_part", "hk_part">>, <<"devanagari_part", "devanagari_part">>}}

\* texts in a scheme whose synonym is longer than its graphemes
SynonymCalls ==
  {Call(d, "long_synonym", "itrans_part", NoKw) : d \in Str(MaxLen, Chars("long_synonym"))}

\* the example of the documentation
ScenarioCalls == {Call(<<"n", "a", "m", "a", "s", "t", "e">>, "hk", "devanagari", NoKw)}

Calls ==
  RomanCalls \cup BrahmicCalls \cup SpanCalls \cup DegenerateCalls \cup OptionCalls
    \cup ScenarioCalls \cup SynonymCalls \cup TogglerCalls

\* ------------------------------------------------------- the state machine
VARIABLES data, from, to, kw, pc, scheme_map, options,
          i, buf, had_consonant, toggled, suspended, result

vars == <<data, from, to, kw, pc, scheme_map, options,
          i, buf, had_consonant, toggled, suspended, result>>

args == <<data, from, to, kw>>

Init ==
  /\ \E c \in Calls : /\ data = c.data
                      /\ from = c.from
                      /\ to = c.to
                      /\ kw = c.kw
  /\ pc = "transliterate"
  /\ scheme_map = EmptyDict
  /\ options = EmptyDict
  /\ i = 0
  /\ buf = <<>>
  /\ had_consonant = FALSE
  /\ toggled = FALSE
  /\ suspended = FALSE
  /\ result = Return(<<>>)

\* transliterate: build the SchemeMap, merge the options, pick the function
Transliterate ==
  /\ pc = "transliterate"
  /\ LET built == SchemeMap(SCHEMES[from], SCHEMES[to])
     IN IF built.raised # ""
        THEN /\ pc' = "raised"
             /\ result' = Raise(built.raised)
             /\ UNCHANGED <<scheme_map, options>>
        ELSE /\ scheme_map' = built.value
             /\ options' = Options(kw)
             /\ pc' = IF built.value.from_roman THEN "_roman" ELSE "_brahmic"
             /\ UNCHANGED result
  /\ UNCHANGED <<args, i, buf, had_consonant, toggled, suspended>>

\* _roman, up to its loop: the pops, the check of kw, the locals
RomanEnter ==
  /\ pc = "_roman"
  /\ IF Unexpected(options) # {}
     THEN /\ pc' = "raised"
          /\ result' = Raise("TypeError")
     ELSE /\ pc' = "roman_loop"
          /\ UNCHANGED result
  /\ i' = RomanStart.i
  /\ buf' = RomanStart.buf
  /\ had_consonant' = RomanStart.had_consonant
  /\ toggled' = RomanStart.toggled
  /\ suspended' = RomanStart.suspended
  /\ UNCHANGED <<args, scheme_map, options>>

RomanLocals ==
  [i |-> i, buf |-> buf, had_consonant |-> had_consonant, found |-> FALSE,
   toggled |-> toggled, suspended |-> suspended, raised |-> ""]

\* one pass of the outer loop of _roman
RomanStep ==
  /\ pc = "roman_loop"
  /\ i <= Len(data)
  /\ LET s == RomanIter(data, scheme_map, options, RomanLocals)
     IN /\ i' = s.i
        /\ buf' = s.buf
        /\ had_consonant' = s.had_consonant
        /\ toggled' = s.toggled
        /\ suspended' = s.suspended
        /\ IF s.raised # ""
           THEN pc' = "raised" /\ result' = Raise(s.raised)
           ELSE UNCHANGED <<pc, result>>
  /\ UNCHANGED <<args, scheme_map, options>>

\* return ''.join(buf)
RomanReturn ==
  /\ pc = "roman_loop"
  /\ i > Len(data)
  /\ pc' = "done"
  /\ result' = Return(buf)
  /\ UNCHANGED <<args, scheme_map, options, i, buf, had_consonant, toggled, suspended>>

\* _brahmic, up to its loop
BrahmicEnter ==
  /\ pc = "_brahmic"
  /\ pc' = "brahmic_loop"
  /\ i' = BrahmicStart.n
  /\ buf' = BrahmicStart.buf
  /\ had_consonant' = BrahmicStart.had_consonant
  /\ UNCHANGED <<args, scheme_map, options, toggled, suspended, result>>

\* one pass of "for L in data:"
BrahmicStep ==
  /\ pc = "brahmic_loop"
  /\ i < Len(data)
  /\ LET s == BrahmicIter(data, scheme_map, [n |-> i, buf |-> buf, had_consonant |-> had_consonant])
     IN /\ i' = s.n
        /\ buf' = s.buf
        /\ had_consonant' = s.had_consonant
  /\ UNCHANGED <<args, pc, scheme_map, options, toggled, suspended, result>>

\* the final inherent vowel and the return
BrahmicReturn ==
  /\ pc = "brahmic_loop"
  /\ i >= Len(data)
  /\ pc' = "done"
  /\ buf' = BrahmicEnd([n |-> i, buf |-> buf, had_consonant |-> had_consonant])
  /\ result' = Return(buf')
  /\ UNCHANGED <<args, scheme_map, options, i, had_consonant, toggled, suspended>>

Next ==
  \/ Transliterate
  \/ RomanEnter
  \/ RomanStep
  \/ RomanReturn
  \/ BrahmicEnter
  \/ BrahmicStep
  \/ BrahmicReturn

Spec == Init /\ [][Next]_vars

\* the call has ended, by a return or by an exception
Ended == pc \in {"done", "raised"}

\* the run of the state machine ends as the functions say
RunMatchesFunction == Ended => result = transliterate(data, from, to, kw)

\* ------------------------------------------------------------- the claims
\* x is a concatenation of graphemes of the set G
RECURSIVE IsConcat(_, _)
IsConcat(x, G) ==
  \/ x = <<>>
  \/ \E g \in G : /\ g # <<>>
                  /\ Len(g) <= Len(x)
                  /\ SubSeq(x, 1, Len(g)) = g
                  /\ IsConcat(SubSeq(x, Len(g) + 1, Len(x)), G)

\* the alternate spellings of the synonym map of a scheme
Synonyms(scheme) ==
  UNION {{scheme.synonym_map[k][n] : n \in DOMAIN scheme.synonym_map[k]} :
           k \in DOMAIN scheme.synonym_map}

\* a scheme with the groups every scheme of the registry has; a Roman one
\* spells its virama ""
Regular(scheme) ==
  /\ {"vowels", "marks", "virama", "consonants"} \subseteq GroupNames(scheme)
  /\ scheme.is_roman => Group(scheme, "virama") = << <<>> >>

\* a call transliterate(x, S, S) with the default options, x made of S's graphemes
IdentityCall ==
  /\ from = to
  /\ kw = NoKw
  /\ Regular(SCHEMES[from])
  /\ IsConcat(data, Graphemes(SCHEMES[from]))

\* C1 as stated: transliterate(x, S, S) returns x for every scheme S, a Roman
\* scheme with a synonym map included, and every x made of graphemes of S.
C1_IdentityAsStated == (Ended /\ IdentityCall) => result = Return(data)

\* C1, amended: transliterate(x, S, S) returns exactly x for every x made of
\* graphemes of S in which no alternate spelling of S's synonym map occurs.
C1_Identity ==
  (Ended /\ IdentityCall /\ \A syn \in Synonyms(SCHEMES[from]) : ~Occurs(syn, data))
    => result = Return(data)

\* a Roman scheme with a synonym map has returned a three-grapheme text unchanged
C1_Witness ==
  /\ pc = "done"
  /\ IdentityCall
  /\ Synonyms(SCHEMES[from]) # {}
  /\ \A syn \in Synonyms(SCHEMES[from]) : ~Occurs(syn, data)
  /\ Len(data) = 3
  /\ data[1] = "k"
  /\ result = Return(data)

\* no grapheme is listed twice in the sequence
Distinct(graphemes) ==
  \A m, n \in DOMAIN graphemes : graphemes[m] = graphemes[n] => m = n

\* every character of the graphemes of a scheme
CharsOf(scheme) == UNION {{g[n] : n \in DOMAIN g} : g \in Graphemes(scheme)}

\* the two schemes have the same groups, of equal length, which pair up one to one
PairUp(a, b) ==
  /\ Regular(a) /\ Regular(b)
  /\ GroupNames(a) = GroupNames(b)
  /\ \A g \in GroupNames(a) : /\ Len(Group(a, g)) = Len(Group(b, g))
                              /\ Distinct(Group(a, g))
                              /\ Distinct(Group(b, g))

\* the layout of the registry's tables: the Roman vowels start with "a", which
\* has no mark, the k-th mark is spelled as the (k+1)-th vowel, and a Brahmic
\* grapheme is one character, used once
LaidOut(roman, brahmic) ==
  /\ roman.is_roman /\ ~brahmic.is_roman
  /\ Group(roman, "vowels")[1] = <<"a">>
  /\ Group(roman, "marks") = Tail(Group(roman, "vowels"))
  /\ \A g \in Graphemes(brahmic) : Len(g) = 1
  /\ \A g, h \in GroupNames(brahmic) :
       g # h => {Group(brahmic, g)[n] : n \in DOMAIN Group(brahmic, g)}
                  \cap {Group(brahmic, h)[n] : n \in DOMAIN Group(brahmic, h)} = {}

\* transliterate(transliterate(x, A, B), B, A), when the first call has ended
Back == IF result.raised # "" THEN result ELSE transliterate(result.value, to, from, kw)

\* a call between a Roman and a Brahmic scheme that pair up, default options
RoundTripCall ==
  /\ kw = NoKw
  /\ PairUp(SCHEMES[from], SCHEMES[to])
  /\ \/ LaidOut(SCHEMES[from], SCHEMES[to])
     \/ LaidOut(SCHEMES[to], SCHEMES[from])

Plain(x, brahmic) ==
  /\ ~Occurs(<<"#", "#">>, x)
  /\ \A n \in DOMAIN x : x[n] \notin CharsOf(brahmic)

TogglerPairs ==
  {t \in (0..Len(data)) \X (0..Len(data)) :
     /\ t[1] + 2 <= t[2]
     /\ t[2] + 2 <= Len(data)
     /\ Slice(data, t[1], t[1] + 2) = <<"#", "#">>
     /\ Slice(data, t[2], t[2] + 2) = <<"#", "#">>}

\* x has none of the characters "#", "<", ">"
NoDelimiter(x) == \A n \in DOMAIN x : x[n] \notin {"#", "<", ">"}

\* the value of transliterate(x) with the schemes and options of the call
T(x) == transliterate(x, from, to, kw).value

\* the call returned transliterate(u), then v, then transliterate(w), for
\* data = u ## v ## w cut at the places t
SpanKept(t) ==
  LET u == Slice(data, 0, t[1])
      v == Slice(data, t[1] + 2, t[2])
      w == Slice(data, t[2] + 2, Len(data))
  IN /\ result = Return(T(u) \o v \o T(w))
     /\ ~Occurs(<<"#", "#">>, result.value)

\* a call from a Roman to a Brahmic scheme with the default options
RomanToBrahmicCall ==
  /\ kw = NoKw
  /\ Regular(SCHEMES[from]) /\ Regular(SCHEMES[to])
  /\ SCHEMES[from].is_roman /\ ~SCHEMES[to].is_roman

PlainSpan(t) ==
  /\ NoDelimiter(Slice(data, 0, t[1]))
  /\ NoDelimiter(Slice(data, t[1] + 2, t[2]))
  /\ NoDelimiter(Slice(data, t[2] + 2, Len(data)))
  /\ t[1] + 2 < t[2]

SuspendPairs ==
  {t \in (0..Len(data)) \X (0..Len(data)) :
     /\ t[1] < t[2]
     /\ t[2] < Len(data)
     /\ data[t[1] + 1] = "<"
     /\ data[t[2] + 1] = ">"
     /\ \A n \in (t[1] + 2)..t[2] : data[n] \notin {"<", ">"}}

\* a call from a Roman scheme with the default options
RomanCall ==
  /\ kw = NoKw
  /\ Regular(SCHEMES[from]) /\ Regular(SCHEMES[to])
  /\ SCHEMES[from].is_roman

\* C4: with default options and a Roman source, for every input that contains
\* "<" v ">", v without "<" and ">", the output contains "<", v and ">"
\* unchanged as one run: nothing inside the span is translated or removed.
C4_SuspendSpan ==
  (Ended /\ RomanCall)
    => \A t \in SuspendPairs :
         result.raised = "" /\ Occurs(Slice(data, t[1], t[2] + 1), result.value)

\* the scheme map of the call
Map == SchemeMap(SCHEMES[from], SCHEMES[to]).value

\* the graphemes of a group of the source scheme
FromGroup(group) ==
  {Group(SCHEMES[from], group)[n] : n \in DOMAIN Group(SCHEMES[from], group)}

\* the window of line 220 reads g first in the text g + h: no longer start of
\* the text is a key of the map
ReadFirst(g, h) ==
  \A n \in (Len(g) + 1)..Min(Len(g \o h), Map.longest) :
     Slice(g \o h, 0, n) \notin DOMAIN Map.other

\* map(c1), virama, map(c2), virama
Conjunct(c1, c2) ==
  Map.consonants[c1] \o Map.virama[<<>>] \o Map.consonants[c2] \o Map.virama[<<>>]

C7_Namaste ==
  (Ended /\ data = <<"n", "a", "m", "a", "s", "t", "e">>
         /\ from = "hk" /\ to = "devanagari" /\ kw = NoKw)
    => result = Return(<<"U+0928", "U+092E", "U+0938", "U+094D", "U+0924", "U+0947">>)

\* C8: a call with an option key other than togglers, suspend_on, suspend_off
\* ends in an error and returns no output, from a Roman and from a Brahmic
\* source alike.
C8_OptionsFailFast == (Ended /\ Unexpected(kw) # {}) => (pc = "raised" /\ result.raised # "")

\* the tables of a scheme map are all empty
AllEmpty(self) ==
  /\ self.marks = EmptyDict /\ self.virama = EmptyDict /\ self.vowels = EmptyDict
  /\ self.consonants = EmptyDict /\ self.other = EmptyDict

\* C9: building the SchemeMap of a call never raises, for every pair of
\* schemes, and a pair with no group name in common, a from-scheme without
\* groups or with empty groups included, gives a SchemeMap with empty tables.
C9_BuildNeverRaises ==
  pc # "transliterate"
    => /\ ~(pc = "raised" /\ result.raised = "ValueError")
       /\ SchemeMap(SCHEMES[from], SCHEMES[to]).raised = ""
       /\ GroupNames(SCHEMES[from]) \cap GroupNames(SCHEMES[to]) = {} => AllEmpty(Map)

\* C10: for every SchemeMap the builder gives, a pair where only one scheme
\* has the virama group and both have consonants included, and every text,
\* transliterate returns without raising, and every character of the text
\* that is in no table and in no toggler is in the output.
C10_NoRuntimeError ==
  (Ended /\ kw = NoKw /\ SchemeMap(SCHEMES[from], SCHEMES[to]).raised = "")
    => /\ result.raised = ""
       /\ \A n \in DOMAIN data :
            (data[n] \notin CharsOf(SCHEMES[from]) /\ data[n] # "#")
              => \E m \in DOMAIN result.value : result.value[m] = data[n]

\* the text of the call with the n characters at place p replaced by k
Replaced(p, n, k) == Slice(data, 0, p) \o k \o Slice(data, p + n, Len(data))

\* C11: for a Roman from-scheme, every grapheme k, every synonym s listed for
\* k in the synonym map, of any length, and all strings u, w,
\* transliterate(u + s + w) equals transliterate(u + k + w).
C11_SynonymEquivalence ==
  (Ended /\ RomanCall)
    => \A k \in DOMAIN SCHEMES[from].synonym_map :
         \A n \in DOMAIN SCHEMES[from].synonym_map[k] :
           LET syn == SCHEMES[from].synonym_map[k][n]
           IN \A p \in 0..Len(data) :
                Slice(data, p, p + Len(syn)) = syn
                  => transliterate(Replaced(p, Len(syn), k), from, to, kw) = result

\* the text x ends with the grapheme v, once
EndsWithOne(x, v) ==
  /\ Len(x) >= Len(v)
  /\ Slice(x, Len(x) - Len(v), Len(x)) = v
  /\ (v # <<>> /\ Len(x) >= 2 * Len(v))
       => Slice(x, Len(x) - 2 * Len(v), Len(x) - Len(v)) # v

\* C12: in the Roman engine, for every text and every setting of the options,
\* togglers of any length included, if had_consonant is set when the input is
\* exhausted then the output ends with one virama after the last consonant.
C12_FinalVirama ==
  (pc = "done" /\ scheme_map.from_roman /\ had_consonant)
    => /\ <<>> \in DOMAIN scheme_map.virama
       /\ EndsWithOne(result.value, scheme_map.virama[<<>>])

\* what the map gives for the character L of a Brahmic text
Mapped(L) ==
  IF L \in DOMAIN Map.marks THEN Map.marks[L]
  ELSE IF L \in DOMAIN Map.virama THEN Map.virama[L]
  ELSE IF L \in DOMAIN Map.other THEN Map.other[L]
  ELSE L

\* the n-th character of the text is a consonant and the next one is neither
\* a mark nor the virama
TakesInherent(n) ==
  /\ <<data[n]>> \in DOMAIN Map.consonants
  /\ n < Len(data) => <<data[n + 1]>> \notin (DOMAIN Map.marks) \cup (DOMAIN Map.virama)

\* the mapped characters from the n-th on, with an "a" after each consonant
\* that takes it when the target is Roman, and nowhere else
RECURSIVE Spelled(_)
Spelled(n) ==
  IF n > Len(data) THEN <<>>
  ELSE Mapped(<<data[n]>>)
         \o (IF Map.to_roman /\ TakesInherent(n) THEN <<"a">> ELSE <<>>)
         \o Spelled(n + 1)

\* C13: from a Brahmic source to a Roman target the output has an "a" right
\* after the mapped grapheme of every consonant that is not followed by a
\* mark or the virama, the last character included, and no other inserted
\* "a"; to a Brahmic target had_consonant is false after every character and
\* no "a" is inserted.
C13_InherentVowel ==
  /\ (pc = "done" /\ ~scheme_map.from_roman) => result = Return(Spelled(1))
  /\ (pc \in {"brahmic_loop", "done"} /\ ~scheme_map.from_roman /\ ~scheme_map.to_roman)
       => had_consonant = FALSE

\* a consonant with a mark and a consonant at the end of the text: four
\* Roman letters, the last one the inherent "a"
C13_Witness ==
  /\ pc = "done"
  /\ ~scheme_map.from_roman /\ scheme_map.to_roman
  /\ Len(data) = 3
  /\ <<data[1]>> \in DOMAIN Map.consonants
  /\ <<data[2]>> \in DOMAIN Map.marks
  /\ TakesInherent(3)
  /\ result = Return(Spelled(1))
  /\ Len(result.value) = 4
  /\ result.value[4] = "a"
  /\ result.value[2] # "a"

====
